---- MODULE Spec2Model ----
(***************************************************************************)
(* Model of omniapy: the Omnia client (src/omniapy/api.py) and the         *)
(* response envelope (src/omniapy/model.py).                               *)
(*                                                                         *)
(* Python strings that reach the URL builder or the signature are          *)
(* sequences of one-character strings, so that strip, join and             *)
(* concatenation act on characters.  Dictionaries are sets of [k, v]       *)
(* records with unique keys.                                               *)
(***************************************************************************)
EXTENDS Integers, Sequences, FiniteSets, TLC

VARIABLES
    self,          \* the client's instance fields (domain_id, api_secret, session_id)
    ctor_args,     \* the arguments __init__ was called with
    by_id_default, \* the one dict object that is by_id's default for parameters
    pc,            \* per thread: "idle", "waiting", "returned", "raised"
    frame,         \* per thread: the arguments of the call in progress
    request,       \* per thread: what was handed to requests.request
    nreq,          \* per thread: calls of requests.request in this invocation
    result,        \* per thread: what the caller got back
    raw,           \* envelope decode alone: the JSON body and target shape
    decoded,       \* envelope decode alone: the outcome of model_validate
    hdr_args,      \* signature alone: two argument tuples of __request_header
    hdr_out        \* signature alone: the two header dicts computed

vars == <<self, ctor_args, by_id_default, pc, frame, request, nreq, result,
          raw, decoded, hdr_args, hdr_out>>

client_vars == <<self, ctor_args, by_id_default, pc, frame, request, nreq, result>>
decode_vars == <<raw, decoded>>
header_vars == <<hdr_args, hdr_out>>

(***************************************************************************)
(* Strings                                                                 *)
(***************************************************************************)
SLASH == <<"/">>

\* "https://api.nexx.cloud/v3.1/"
BASE_URL ==
    <<"h","t","t","p","s",":","/","/","a","p","i",".","n","e","x","x",".",
      "c","l","o","u","d","/","v","3",".","1","/">>

OMNIA_HEADER_X_REQUEST_CID == "X-Request-CID"
OMNIA_HEADER_X_REQUEST_TOKEN == "X-Request-Token"

\* StreamType members and their values
StreamType == {"ALL", "VIDEO", "AUDIO", "SHOW", "RADIO", "LIVE"}

StreamTypeValue(st) ==
    CASE st = "ALL"   -> <<"a","l","l","m","e","d","i","a">>
      [] st = "VIDEO" -> <<"v","i","d","e","o","s">>
      [] st = "AUDIO" -> <<"a","u","d","i","o">>
      [] st = "SHOW"  -> <<"s","h","o","w","s">>
      [] st = "RADIO" -> <<"r","a","d","i","o">>
      [] st = "LIVE"  -> <<"l","i","v","e">>

ApiType == {"MEDIA", "MANAGEMENT", "UPLOAD_LINK_MANAGEMENT", "SYSTEM", "DOMAIN"}

\* str.lstrip("/")
RECURSIVE lstrip(_)
lstrip(s) == IF s # <<>> /\ Head(s) = "/" THEN lstrip(Tail(s)) ELSE s

\* str.rstrip("/")
RECURSIVE rstrip(_)
rstrip(s) ==
    IF s # <<>> /\ s[Len(s)] = "/" THEN rstrip(SubSeq(s, 1, Len(s) - 1)) ELSE s

\* "/".join(parts)
RECURSIVE join(_)
join(parts) ==
    IF parts = <<>> THEN <<>>
    ELSE IF Len(parts) = 1 THEN parts[1]
    ELSE parts[1] \o SLASH \o join(Tail(parts))

\* str(n) of an int
Digits == <<"0","1","2","3","4","5","6","7","8","9">>

RECURSIVE NatToStr(_)
NatToStr(n) ==
    IF n < 10 THEN <<Digits[n + 1]>>
    ELSE NatToStr(n \div 10) \o <<Digits[(n % 10) + 1]>>

IntToStr(n) == IF n < 0 THEN <<"-">> \o NatToStr(-n) ELSE NatToStr(n)

\* hashlib.md5(s.encode("utf-8")).hexdigest(): the digest is kept symbolic,
\* one distinct value per input string
md5_hexdigest(s) == <<"md5(">> \o s \o <<")">>

(***************************************************************************)
(* Omnia.__url_builder and Omnia.__request_header                          *)
(***************************************************************************)
url_builder(args) ==
    join([i \in 1..Len(args) |-> rstrip(lstrip(args[i]))])

\* request_header signing domain_id before operation
request_header_domain_first(operation, domain_id, api_secret, session_id) ==
    { [k |-> OMNIA_HEADER_X_REQUEST_CID, v |-> session_id],
      [k |-> OMNIA_HEADER_X_REQUEST_TOKEN,
       v |-> md5_hexdigest(domain_id \o operation \o api_secret)] }

\* request_header signing domain_id and api_secret only
request_header_without_operation(operation, domain_id, api_secret, session_id) ==
    { [k |-> OMNIA_HEADER_X_REQUEST_CID, v |-> session_id],
      [k |-> OMNIA_HEADER_X_REQUEST_TOKEN,
       v |-> md5_hexdigest(domain_id \o api_secret)] }

request_header(operation, domain_id, api_secret, session_id) ==
    { [k |-> OMNIA_HEADER_X_REQUEST_CID, v |-> session_id],
      [k |-> OMNIA_HEADER_X_REQUEST_TOKEN,
       v |-> md5_hexdigest(operation \o domain_id \o api_secret)] }

(***************************************************************************)
(* Inputs                                                                  *)
(***************************************************************************)
\* longest positional-argument list handed to the generic call
MaxArgs == 2

Threads == {"t1", "t2"}

DomainIds == { <<"d","1">>, <<"1","2","3","4","5">> }
ApiSecrets == { <<"t","o","p","s","e","c","r","e","t">> }
SessionIds == { <<"s","e","s","s","1">> }

\* stream types of the convenience operations, and of the generic call
StreamInputs == {"VIDEO", "AUDIO"}
CallStreamInputs == {"LIVE"}
ItemIds == {7, 42}

StrValue(s) == [kind |-> "str", s |-> s, n |-> 0]
IntValue(n) == [kind |-> "int", s |-> "", n |-> n]

EmptyDict == {}
ParameterInputs ==
    { EmptyDict, { [k |-> "additionalfields", v |-> StrValue("channel")] } }

UrlInputs == {"https://example.org/a.mp4"}

\* Optional[str]: None, or a string (possibly empty)
None == [given |-> FALSE, name |-> ""]
Some(name) == [given |-> TRUE, name |-> name]
FilenameInputs == {None, Some(""), Some("a.mp4")}

Methods == {"get", "post"}
Operations == { <<"b","y","i","d">>, <<"/","l","i","s","t","/">> }
ArgAtoms == { <<"4","2">> }

RECURSIVE SeqsUpTo(_, _)
SeqsUpTo(S, n) ==
    IF n = 0 THEN { <<>> }
    ELSE LET shorter == SeqsUpTo(S, n - 1)
         IN shorter \cup { Append(q, x) : q \in shorter, x \in S }

ArgLists == SeqsUpTo(ArgAtoms, MaxArgs)

ResponseTypes == {"MediaResultItem", "Any", "EditableAttributesResponse"}

(***************************************************************************)
(* Omnia.__universal_call up to requests.request                           *)
(***************************************************************************)
CallArgs(method, stream_type, api_type, operation, args, parameters, response_type) ==
    [method |-> method, stream_type |-> stream_type, api_type |-> api_type,
     operation |-> operation, args |-> args, parameters |-> parameters,
     response_type |-> response_type]

\* universal_call_segments with the management branch in the media branch's order
universal_call_segments_operation_first(client, c) ==
    LET args_str == join(c.args)
    IN IF c.api_type = "MEDIA" THEN
           <<BASE_URL, client.domain_id, StreamTypeValue(c.stream_type),
             c.operation, args_str>>
       ELSE IF c.api_type = "MANAGEMENT" THEN
           <<BASE_URL, client.domain_id, <<"m","a","n","a","g","e">>,
             StreamTypeValue(c.stream_type), c.operation, args_str>>
       ELSE IF c.api_type = "UPLOAD_LINK_MANAGEMENT" THEN
           <<BASE_URL, client.domain_id, <<"m","a","n","a","g","e">>,
             <<"u","p","l","o","a","d","l","i","n","k","s">>, c.operation>>
       ELSE IF c.api_type = "SYSTEM" THEN
           <<BASE_URL, client.domain_id, <<"s","y","s","t","e","m">>,
             c.operation, args_str>>
       ELSE <<>>

\* the segments __universal_call hands to __url_builder; none when no branch is taken
universal_call_segments(client, c) ==
    LET args_str == join(c.args)
    IN IF c.api_type = "MEDIA" THEN
           <<BASE_URL, client.domain_id, StreamTypeValue(c.stream_type),
             c.operation, args_str>>
       ELSE IF c.api_type = "MANAGEMENT" THEN
           <<BASE_URL, client.domain_id, <<"m","a","n","a","g","e">>,
             StreamTypeValue(c.stream_type), args_str, c.operation>>
       ELSE IF c.api_type = "UPLOAD_LINK_MANAGEMENT" THEN
           <<BASE_URL, client.domain_id, <<"m","a","n","a","g","e">>,
             <<"u","p","l","o","a","d","l","i","n","k","s">>, c.operation>>
       ELSE IF c.api_type = "SYSTEM" THEN
           <<BASE_URL, client.domain_id, <<"s","y","s","t","e","m">>,
             c.operation, args_str>>
       ELSE <<>>

\* url: str = "" unless a branch assigns it
universal_call_url(client, c) ==
    IF c.api_type \in {"MEDIA", "MANAGEMENT", "UPLOAD_LINK_MANAGEMENT", "SYSTEM"}
    THEN url_builder(universal_call_segments(client, c))
    ELSE <<>>

\* the arguments of requests.request(method, headers=header, url=url, data=parameters)
universal_call_request(client, c) ==
    [method  |-> c.method,
     url     |-> universal_call_url(client, c),
     headers |-> request_header(c.operation, client.domain_id,
                                client.api_secret, client.session_id),
     data    |-> c.parameters]

(***************************************************************************)
(* Response envelope: Response[response_type].model_validate(body)         *)
(***************************************************************************)
\* ResponseMetadata: wire alias, semantic name, declared type, whether the
\* field has a default (None)
ResponseMetadataFields ==
    { [alias |-> "status",         name |-> "status",          type |-> "int",   has_default |-> FALSE],
      [alias |-> "apiversion",     name |-> "api_version",     type |-> "str",   has_default |-> TRUE],
      [alias |-> "verb",           name |-> "verb",            type |-> "str",   has_default |-> FALSE],
      [alias |-> "processingtime", name |-> "processing_time", type |-> "float", has_default |-> FALSE],
      [alias |-> "calledwith",     name |-> "called_with",     type |-> "str",   has_default |-> TRUE],
      [alias |-> "calledfor",      name |-> "called_for",      type |-> "str",   has_default |-> TRUE],
      [alias |-> "fordomain",      name |-> "for_domain",      type |-> "int",   has_default |-> TRUE],
      [alias |-> "fromstage",      name |-> "from_stage",      type |-> "int",   has_default |-> TRUE],
      [alias |-> "notice",         name |-> "notice",          type |-> "str",   has_default |-> TRUE],
      [alias |-> "errorhint",      name |-> "error_hint",      type |-> "str",   has_default |-> TRUE],
      [alias |-> "fromcache",      name |-> "from_cache",      type |-> "int",   has_default |-> TRUE] }

MetadataAliases == { f.alias : f \in ResponseMetadataFields }
MetadataNames == { f.name : f \in ResponseMetadataFields }

\* JSON values: kind is "int", "float" or "str"; absent marks a key that is missing
Absent == [kind |-> "absent", s |-> "", n |-> 0]
FloatValue(n) == [kind |-> "float", s |-> "", n |-> n]

\* whether a JSON value validates against a declared scalar type
validates(type, v) ==
    CASE type = "int"   -> v.kind = "int"
      [] type = "float" -> v.kind \in {"int", "float"}
      [] type = "str"   -> v.kind = "str"

\* dict lookup: the value under key, Absent when the key is missing
Get(dict, key) ==
    IF \E e \in dict : e.k = key THEN (CHOOSE e \in dict : e.k = key).v ELSE Absent

Keys(dict) == { e.k : e \in dict }

\* ResponseMetadata.model_validate on a JSON object keyed by the wire aliases:
\* a field without default must be present,
\* a present field must validate; a missing field with a default is None
metadata_errors(md) ==
    { f.name : f \in { g \in ResponseMetadataFields :
                 LET v == Get(md, g.alias)
                 IN IF v.kind = "absent" THEN ~g.has_default
                    ELSE ~validates(g.type, v) } }

metadata_decoded(md) ==
    [name \in MetadataNames |->
        Get(md, (CHOOSE f \in ResponseMetadataFields : f.name = name).alias)]

\* the JSON value under "result" is kept by its shape: "absent", "item" (an
\* object that is a valid MediaResultItem), "attrs" (a valid map of editable
\* attributes) or "text" (a JSON string)
result_validates(response_type, shape) ==
    \/ shape = "absent"
    \/ response_type = "Any"
    \/ response_type = "MediaResultItem" /\ shape = "item"
    \/ response_type = "EditableAttributesResponse" /\ shape = "attrs"

\* ResponsePaging: start, limit, resultcount are all required ints
paging_validates(pg) ==
    \/ ~pg.present
    \/ \A key \in {"start", "limit", "resultcount"} : validates("int", Get(pg.value, key))

NoResponse == [metadata |-> [name \in MetadataNames |-> Absent],
               result |-> "absent", paging |-> [present |-> FALSE, value |-> {}]]

\* Response[response_type].model_validate(body): the Response, or a ValidationError
model_validate(response_type, body) ==
    IF /\ body.has_metadata
       /\ metadata_errors(body.metadata) = {}
       /\ result_validates(response_type, body.result)
       /\ paging_validates(body.paging)
    THEN [exc |-> "none",
          response |-> [metadata |-> metadata_decoded(body.metadata),
                        result |-> body.result,
                        paging |-> body.paging]]
    ELSE [exc |-> "ValidationError", response |-> NoResponse]

(***************************************************************************)
(* Response bodies the remote service may send                             *)
(***************************************************************************)
\* a well-typed wire value for each metadata key
WireValue(alias) ==
    CASE alias = "status"         -> IntValue(200)
      [] alias = "apiversion"     -> StrValue("3.1")
      [] alias = "verb"           -> StrValue("GET")
      [] alias = "processingtime" -> FloatValue(12)
      [] alias = "calledwith"     -> StrValue("byid/42")
      [] alias = "calledfor"      -> StrValue("cfo")
      [] alias = "fordomain"      -> IntValue(1)
      [] alias = "fromstage"      -> IntValue(0)
      [] alias = "notice"         -> StrValue("deprecated")
      [] alias = "errorhint"      -> StrValue("hint")
      [] alias = "fromcache"      -> IntValue(1)

MetadataWith(aliases, status) ==
    { [k |-> a, v |-> IF a = "status" THEN status ELSE WireValue(a)] : a \in aliases }

NoPaging == [present |-> FALSE, value |-> {}]
SomePaging ==
    [present |-> TRUE,
     value |-> { [k |-> "start", v |-> IntValue(0)], [k |-> "limit", v |-> IntValue(10)],
                 [k |-> "resultcount", v |-> IntValue(1)] }]

Body(has_metadata, metadata, res, paging) ==
    [has_metadata |-> has_metadata, metadata |-> metadata, result |-> res, paging |-> paging]

ResultShapes == {"absent", "item", "attrs", "text"}
StatusValues == { IntValue(200), StrValue("oops") }

\* every JSON object the decoder is checked on
AllBodies ==
    { Body(TRUE, MetadataWith(K, st), r, pg) :
        K \in SUBSET MetadataAliases, st \in StatusValues,
        r \in ResultShapes, pg \in {NoPaging, SomePaging} }
    \cup { Body(FALSE, {}, r, NoPaging) : r \in ResultShapes }

\* the bodies the client model receives
SampleBodies ==
    { Body(TRUE, MetadataWith(MetadataAliases, IntValue(200)), "item", NoPaging),
      Body(TRUE, MetadataWith({"status", "verb", "processingtime", "errorhint"},
                              IntValue(404)), "absent", NoPaging),
      Body(TRUE, MetadataWith({"verb", "processingtime"}, IntValue(200)), "item", NoPaging) }

(***************************************************************************)
(* The client: state after construction                                    *)
(***************************************************************************)
NoCall == CallArgs("", "VIDEO", "DOMAIN", <<>>, <<>>, {}, "Any")

Input(stream_type, item_id, defaulted, parameters, url, use_queue, filename) ==
    [stream_type |-> stream_type, item_id |-> item_id, defaulted |-> defaulted,
     parameters |-> parameters, url |-> url, use_queue |-> use_queue,
     filename |-> filename]

NoInput == Input("VIDEO", 0, FALSE, {}, "", FALSE, None)

NoFrame == [entry |-> "", input |-> NoInput, call |-> NoCall]
NoRequest == [method |-> "", url |-> <<>>, headers |-> {}, data |-> {}]
NoResult == [exc |-> "pending", response |-> NoResponse]

NoRaw == [response_type |-> "Any", body |-> Body(FALSE, {}, "absent", NoPaging)]
NoHeaderArgs == <<>>

\* Omnia.__init__(domain_id, api_secret, session_id)
CtorInputs == [domain_id : DomainIds, api_secret : ApiSecrets, session_id : SessionIds]

ClientInit(args) ==
    /\ ctor_args = args
    /\ self = [domain_id |-> args.domain_id, api_secret |-> args.api_secret,
               session_id |-> args.session_id]
    /\ by_id_default = {}
    /\ pc = [t \in Threads |-> "idle"]
    /\ frame = [t \in Threads |-> NoFrame]
    /\ request = [t \in Threads |-> NoRequest]
    /\ nreq = [t \in Threads |-> 0]
    /\ result = [t \in Threads |-> NoResult]

Init ==
    /\ \E args \in CtorInputs : ClientInit(args)
    /\ raw = NoRaw
    /\ decoded = NoResult
    /\ hdr_args = NoHeaderArgs
    /\ hdr_out = <<>>

(***************************************************************************)
(* The client's operations                                                 *)
(***************************************************************************)
\* Omnia.call -> Omnia.__universal_call, up to and including requests.request
call_enter(t, entry, input, c) ==
    /\ pc[t] # "waiting"
    /\ pc' = [pc EXCEPT ![t] = "waiting"]
    /\ frame' = [frame EXCEPT ![t] = [entry |-> entry, input |-> input, call |-> c]]
    /\ request' = [request EXCEPT ![t] = universal_call_request(self, c)]
    /\ nreq' = [nreq EXCEPT ![t] = 1]
    /\ result' = [result EXCEPT ![t] = NoResult]
    /\ UNCHANGED <<decode_vars, header_vars>>

\* by_id writing the item id into its parameters dict, which is the shared
\* default object when the caller passed none
by_id_writing_parameters(t) ==
    \E stream_type \in StreamInputs, item_id \in ItemIds,
       defaulted \in BOOLEAN, given \in ParameterInputs :
        LET before == IF defaulted THEN by_id_default ELSE given
            parameters == before \cup { [k |-> "id", v |-> StrValue("item")] }
        IN /\ defaulted => given = EmptyDict
           /\ call_enter(t, "by_id",
                  Input(stream_type, item_id, defaulted, parameters, "", FALSE, None),
                  CallArgs("get", stream_type, "MEDIA", <<"b","y","i","d">>,
                           <<IntToStr(item_id)>>, parameters, "MediaResultItem"))
           /\ by_id_default' = IF defaulted THEN parameters ELSE by_id_default
           /\ UNCHANGED <<self, ctor_args>>

by_id(t) ==
    \E stream_type \in StreamInputs, item_id \in ItemIds,
       defaulted \in BOOLEAN, given \in ParameterInputs :
        LET parameters == IF defaulted THEN by_id_default ELSE given
        IN /\ defaulted => given = EmptyDict
           /\ call_enter(t, "by_id",
                  Input(stream_type, item_id, defaulted, parameters, "", FALSE, None),
                  CallArgs("get", stream_type, "MEDIA", <<"b","y","i","d">>,
                           <<IntToStr(item_id)>>, parameters, "MediaResultItem"))
           /\ UNCHANGED <<self, ctor_args, by_id_default>>

update(t) ==
    \E stream_type \in StreamInputs, item_id \in ItemIds,
       parameters \in ParameterInputs :
        /\ call_enter(t, "update",
               Input(stream_type, item_id, FALSE, parameters, "", FALSE, None),
               CallArgs("put", stream_type, "MANAGEMENT", <<"u","p","d","a","t","e">>,
                        <<IntToStr(item_id)>>, parameters, "Any"))
        /\ UNCHANGED <<self, ctor_args, by_id_default>>

\* upload_by_url_data testing "filename is not None" instead of truthiness
upload_by_url_data_if_not_none(url, use_queue, filename) ==
    { [k |-> "url", v |-> StrValue(url)],
      [k |-> "useQueue", v |-> IntValue(IF use_queue THEN 1 ELSE 0)] }
    \cup (IF filename.given
          THEN { [k |-> "filename", v |-> StrValue(filename.name)] }
          ELSE {})

\* the dict upload_by_url builds: filename is added when it is truthy
upload_by_url_data(url, use_queue, filename) ==
    { [k |-> "url", v |-> StrValue(url)],
      [k |-> "useQueue", v |-> IntValue(IF use_queue THEN 1 ELSE 0)] }
    \cup (IF filename.given /\ filename.name # ""
          THEN { [k |-> "filename", v |-> StrValue(filename.name)] }
          ELSE {})

upload_by_url(t) ==
    \E stream_type \in StreamInputs, url \in UrlInputs,
       use_queue \in BOOLEAN, filename \in FilenameInputs :
        /\ call_enter(t, "upload_by_url",
               Input(stream_type, 0, FALSE, {}, url, use_queue, filename),
               CallArgs("post", stream_type, "MANAGEMENT", <<"f","r","o","m","u","r","l">>,
                        <<>>, upload_by_url_data(url, use_queue, filename), "Any"))
        /\ UNCHANGED <<self, ctor_args, by_id_default>>

editable_attributes(t) ==
    \E stream_type \in StreamInputs :
        /\ call_enter(t, "editable_attributes",
               Input(stream_type, 0, FALSE, {}, "", FALSE, None),
               CallArgs("get", stream_type, "SYSTEM",
                        <<"e","d","i","t","a","b","l","e","a","t","t","r","i","b","u","t","e","s","f","o","r">>,
                        <<StreamTypeValue(stream_type)>>, {}, "EditableAttributesResponse"))
        /\ UNCHANGED <<self, ctor_args, by_id_default>>

call(t) ==
    \E method \in Methods, stream_type \in CallStreamInputs, api_type \in ApiType,
       operation \in Operations, args \in ArgLists, parameters \in ParameterInputs :
        /\ call_enter(t, "call",
               Input(stream_type, 0, FALSE, parameters, "", FALSE, None),
               CallArgs(method, stream_type, api_type, operation, args, parameters, "Any"))
        /\ UNCHANGED <<self, ctor_args, by_id_default>>

\* how an invocation ends: the frame is gone and the caller holds the outcome
call_leave(t, outcome) ==
    /\ pc' = [pc EXCEPT ![t] = IF outcome.exc = "none" THEN "returned" ELSE "raised"]
    /\ result' = [result EXCEPT ![t] = outcome]
    /\ frame' = [frame EXCEPT ![t] = NoFrame]
    /\ request' = [request EXCEPT ![t] = NoRequest]
    /\ UNCHANGED <<nreq, self, ctor_args, by_id_default, decode_vars, header_vars>>

\* requests.request raises: connection failure, or the URL has no scheme.
\* With the empty URL requests can only raise, so a response (the two actions
\* below) needs a built URL.
transport_raises(t) ==
    /\ pc[t] = "waiting"
    /\ call_leave(t, [exc |-> "TransportError", response |-> NoResponse])

\* json_raises sending the request again instead of raising
json_raises_retrying(t) ==
    /\ pc[t] = "waiting"
    /\ request[t].url # <<>>
    /\ nreq[t] < 3
    /\ nreq' = [nreq EXCEPT ![t] = @ + 1]
    /\ UNCHANGED <<pc, frame, request, result, self, ctor_args, by_id_default,
                   decode_vars, header_vars>>

\* a response arrived and result.json() raises: the body is not JSON
json_raises(t) ==
    /\ pc[t] = "waiting"
    /\ request[t].url # <<>>
    /\ call_leave(t, [exc |-> "JSONDecodeError", response |-> NoResponse])

\* a response with a JSON body arrived: return Response[...].model_validate(body)
response_validated(t) ==
    /\ pc[t] = "waiting"
    /\ request[t].url # <<>>
    /\ \E body \in SampleBodies :
          call_leave(t, model_validate(frame[t].call.response_type, body))

ClientNext ==
    \E t \in Threads :
        \/ by_id(t)
        \/ update(t)
        \/ upload_by_url(t)
        \/ editable_attributes(t)
        \/ call(t)
        \/ transport_raises(t)
        \/ json_raises(t)
        \/ response_validated(t)

Next == ClientNext

Spec == Init /\ [][Next]_vars

(***************************************************************************)
(* The envelope decoder alone, over every body                             *)
(***************************************************************************)
DecodeInit ==
    /\ ClientInit(CHOOSE args \in CtorInputs : args.domain_id = <<"d","1">>)
    /\ raw \in [response_type : ResponseTypes, body : AllBodies]
    /\ decoded = NoResult
    /\ hdr_args = NoHeaderArgs
    /\ hdr_out = <<>>

validate_raw ==
    /\ decoded = NoResult
    /\ decoded' = model_validate(raw.response_type, raw.body)
    /\ UNCHANGED <<raw, client_vars, header_vars>>

DecodeNext == validate_raw

DecodeSpec == DecodeInit /\ [][DecodeNext]_vars

(***************************************************************************)
(* The signature calculator alone, on two argument tuples                  *)
(***************************************************************************)
HeaderOperations == { <<"b","y">>, <<"b","y","i","d">>, <<"u","p","d","a","t","e">> }
HeaderDomainIds == { <<"i","d","1">>, <<"1">>, <<"d","1">> }
HeaderApiSecrets == { <<"t","o","p","s","e","c","r","e","t">>, <<"s">> }

HeaderInputs ==
    [operation : HeaderOperations, domain_id : HeaderDomainIds,
     api_secret : HeaderApiSecrets, session_id : SessionIds]

HeaderInit ==
    /\ ClientInit(CHOOSE args \in CtorInputs : args.domain_id = <<"d","1">>)
    /\ raw = NoRaw
    /\ decoded = NoResult
    /\ hdr_args \in { <<a, b>> : a \in HeaderInputs, b \in HeaderInputs }
    /\ hdr_out = <<>>

compute_headers ==
    /\ hdr_out = <<>>
    /\ hdr_out' = [i \in 1..2 |->
                      request_header(hdr_args[i].operation, hdr_args[i].domain_id,
                                     hdr_args[i].api_secret, hdr_args[i].session_id)]
    /\ UNCHANGED <<hdr_args, client_vars, decode_vars>>

HeaderNext == compute_headers

HeaderSpec == HeaderInit /\ [][HeaderNext]_vars

(***************************************************************************)
(* Properties                                                              *)
(***************************************************************************)
Waiting(t) == pc[t] = "waiting"

\* "https://api.nexx.cloud/v3.1": the base endpoint without its final "/"
ApiBase ==
    <<"h","t","t","p","s",":","/","/","a","p","i",".","n","e","x","x",".",
      "c","l","o","u","d","/","v","3",".","1">>

Trimmed(s) == rstrip(lstrip(s))

\* a path written out segment by segment
Path2(a, b) == a \o SLASH \o b
Path4(a, b, c, d) == Path2(Path2(a, b), Path2(c, d))
Path5(a, b, c, d, e) == Path2(Path4(a, b, c, d), e)
Path6(a, b, c, d, e, f) == Path2(Path5(a, b, c, d, e), f)

JoinedArgs(c) == Trimmed(join(c.args))

TemplateUrl(domain, c) ==
    CASE c.api_type = "MEDIA" ->
            Path5(ApiBase, domain, StreamTypeValue(c.stream_type),
                  Trimmed(c.operation), JoinedArgs(c))
      [] c.api_type = "MANAGEMENT" ->
            Path6(ApiBase, domain, <<"m","a","n","a","g","e">>,
                  StreamTypeValue(c.stream_type), JoinedArgs(c), Trimmed(c.operation))
      [] c.api_type = "UPLOAD_LINK_MANAGEMENT" ->
            Path5(ApiBase, domain, <<"m","a","n","a","g","e">>,
                  <<"u","p","l","o","a","d","l","i","n","k","s">>, Trimmed(c.operation))
      [] c.api_type = "SYSTEM" ->
            Path5(ApiBase, domain, <<"s","y","s","t","e","m">>,
                  Trimmed(c.operation), JoinedArgs(c))

D1 == <<"d","1">>

\* C1: the URL of every request of a media, management, upload-link-management
\* or system call is the "/"-join of its category's template, {args} being the
\* "/"-join of the positional arguments; by_id(video, 42) on domain d1 goes to
\* <base>/d1/videos/byid/42 and update(audio, 7) on d1 to <base>/d1/manage/audio/7/update.
C1_UrlFollowsTemplate ==
    \A t \in Threads :
        Waiting(t) =>
            LET f == frame[t]
                url == request[t].url
            IN /\ f.call.api_type # "DOMAIN" =>
                      url = TemplateUrl(ctor_args.domain_id, f.call)
               /\ ( /\ f.entry = "by_id"
                    /\ f.input.stream_type = "VIDEO"
                    /\ f.input.item_id = 42
                    /\ ctor_args.domain_id = D1 ) =>
                      url = ApiBase \o <<"/","d","1","/","v","i","d","e","o","s","/",
                                         "b","y","i","d","/","4","2">>
               /\ ( /\ f.entry = "update"
                    /\ f.input.stream_type = "AUDIO"
                    /\ f.input.item_id = 7
                    /\ ctor_args.domain_id = D1 ) =>
                      url = ApiBase \o <<"/","d","1","/","m","a","n","a","g","e","/",
                                         "a","u","d","i","o","/","7","/",
                                         "u","p","d","a","t","e">>

C1_Witness ==
    \E t, u \in Threads :
        /\ Waiting(t) /\ Waiting(u)
        /\ ctor_args.domain_id = D1
        /\ frame[t].entry = "update"
        /\ frame[t].input.stream_type = "AUDIO"
        /\ frame[t].input.item_id = 7
        /\ frame[u].entry = "call"
        /\ frame[u].call.api_type = "UPLOAD_LINK_MANAGEMENT"

HeaderValue(headers, key) == (CHOOSE e \in headers : e.k = key).v

\* C2: every request carries exactly the two headers X-Request-CID, equal to the
\* session_id given at construction, and X-Request-Token, the digest of
\* operation + domain_id + api_secret; two calls with the same operation carry
\* the same header pair whatever their other arguments are.
C2_HeadersAreSessionAndToken ==
    /\ \A t \in Threads :
          Waiting(t) =>
              LET h == request[t].headers
              IN /\ Cardinality(h) = 2
                 /\ Keys(h) = {"X-Request-CID", "X-Request-Token"}
                 /\ HeaderValue(h, "X-Request-CID") = ctor_args.session_id
                 /\ HeaderValue(h, "X-Request-Token") =
                        md5_hexdigest(frame[t].call.operation \o ctor_args.domain_id
                                      \o ctor_args.api_secret)
    /\ \A t, u \in Threads :
          ( /\ Waiting(t) /\ Waiting(u)
            /\ frame[t].call.operation = frame[u].call.operation ) =>
              request[t].headers = request[u].headers

C2_Witness ==
    \E t, u \in Threads :
        /\ Waiting(t) /\ Waiting(u)
        /\ frame[t].entry = "by_id"
        /\ frame[u].entry = "call"
        /\ frame[u].call.operation = frame[t].call.operation
        /\ frame[u].call.method # frame[t].call.method
        /\ frame[u].call.api_type = "SYSTEM"
        /\ frame[u].call.args # frame[t].call.args
        /\ frame[u].call.parameters # frame[t].call.parameters

\* the metadata of the body under decode, and what the decoder was asked to do
RawWellFormed ==
    /\ raw.body.has_metadata
    /\ \A e \in raw.body.metadata :
          validates((CHOOSE f \in ResponseMetadataFields : f.alias = e.k).type, e.v)
    /\ result_validates(raw.response_type, raw.body.result)
    /\ paging_validates(raw.body.paging)

\* C3: status and verb are the only required metadata fields: a body whose
\* metadata has a well-typed status and verb decodes whichever of the other
\* fields are omitted, each omitted one decoded as None; a body whose metadata
\* lacks status or verb raises and yields no Response.
C3_RequiredAreStatusAndVerb ==
    (decoded # NoResult /\ RawWellFormed) =>
        LET present == Keys(raw.body.metadata)
        IN /\ {"status", "verb"} \subseteq present =>
                /\ decoded.exc = "none"
                /\ \A f \in ResponseMetadataFields :
                      f.alias \notin present =>
                          decoded.response.metadata[f.name] = Absent
           /\ ~({"status", "verb"} \subseteq present) =>
                /\ decoded.exc = "ValidationError"
                /\ decoded.response = NoResponse

UploadFrame(t) == Waiting(t) /\ frame[t].entry = "upload_by_url"

\* C4 as stated: without a filename the body of upload_by_url has no "filename"
\* key; with a filename string it carries that string under "filename"; url
\* and useQueue are always there.
C4_FilenameWheneverSupplied ==
    \A t \in Threads :
        UploadFrame(t) =>
            LET in == frame[t].input
                data == request[t].data
            IN /\ ~in.filename.given => "filename" \notin Keys(data)
               /\ in.filename.given =>
                     Get(data, "filename") = StrValue(in.filename.name)
               /\ {"url", "useQueue"} \subseteq Keys(data)

\* C4 amended: the body of upload_by_url has a "filename" key exactly when the
\* caller supplied a non-empty filename, and then it carries that string; with
\* no filename or an empty one there is no such key; url and useQueue (0 or 1)
\* are always there.
C4_FilenameWhenNonEmpty ==
    \A t \in Threads :
        UploadFrame(t) =>
            LET in == frame[t].input
                data == request[t].data
                supplied == in.filename.given /\ in.filename.name # ""
            IN /\ ~supplied => "filename" \notin Keys(data)
               /\ supplied => Get(data, "filename") = StrValue(in.filename.name)
               /\ Get(data, "url") = StrValue(in.url)
               /\ Get(data, "useQueue") = IntValue(IF in.use_queue THEN 1 ELSE 0)
               /\ Keys(data) \subseteq {"url", "useQueue", "filename"}

C4_Witness ==
    \E t, u \in Threads :
        /\ UploadFrame(t) /\ UploadFrame(u)
        /\ frame[t].input.filename = Some("")
        /\ frame[u].input.filename = Some("a.mp4")
        /\ "filename" \in Keys(request[u].data)

\* where the "/" that joins segment i to segment i+1 sits in the built URL
RECURSIVE Boundary(_, _)
Boundary(segs, i) ==
    IF i = 0 THEN 0 ELSE Boundary(segs, i - 1) + Len(Trimmed(segs[i])) + 1

\* C5: whatever segments are handed to the URL builder, an empty one included,
\* the URL has no two consecutive "/" at a boundary between segments.
C5_NoDoubledSlashAtBoundary ==
    \A t \in Threads :
        (Waiting(t) /\ frame[t].call.api_type # "DOMAIN") =>
            LET segs == universal_call_segments(self, frame[t].call)
                url == request[t].url
            IN \A i \in 1..(Len(segs) - 1) :
                  LET b == Boundary(segs, i)
                  IN /\ url[b] = "/"
                     /\ b > 1 => url[b - 1] # "/"
                     /\ b < Len(url) => url[b + 1] # "/"

\* C6: a call made with the GET verb never sends the caller's parameters as
\* the request body.
C6_GetSendsNoBody ==
    \A t \in Threads :
        (Waiting(t) /\ request[t].method = "get") => request[t].data = {}

\* C7: every invocation hands exactly one request to the transport and then
\* returns or raises; none is sent again, whether the response decodes, reports
\* a failing status, fails to decode, or the transport raises.
C7_OneRequestPerInvocation ==
    \A t \in Threads :
        /\ pc[t] = "idle" => nreq[t] = 0
        /\ pc[t] # "idle" => nreq[t] = 1
        /\ pc[t] = "returned" => result[t].exc = "none"
        /\ pc[t] = "raised" =>
              result[t].exc \in {"TransportError", "JSONDecodeError", "ValidationError"}

C7_Witness ==
    \E t, u \in Threads :
        /\ pc[t] = "returned"
        /\ result[t].response.metadata["status"] = IntValue(404)
        /\ pc[u] = "raised"
        /\ result[u].exc = "JSONDecodeError"
        /\ nreq[t] = 1 /\ nreq[u] = 1

\* the call of a frame as it would be on a client nobody else has used
CallAlone(f) ==
    IF f.entry = "by_id" /\ f.input.defaulted
    THEN [f.call EXCEPT !.parameters = EmptyDict]
    ELSE f.call

\* C8: no operation changes domain_id, api_secret, session_id or the default
\* parameters of by_id, and under every interleaving each call sends the
\* request it would send alone on a fresh client with the same credentials.
C8_CallsShareNoState ==
    /\ [](\A t \in Threads :
            Waiting(t) =>
                request[t] = universal_call_request(ctor_args, CallAlone(frame[t])))
    /\ [][self' = self /\ by_id_default' = by_id_default]_vars

C8_Witness ==
    \E t, u \in Threads :
        /\ t # u
        /\ Waiting(t) /\ Waiting(u)
        /\ frame[t].entry = "by_id" /\ frame[t].input.defaulted
        /\ frame[u].entry = "by_id" /\ frame[u].input.defaulted
        /\ frame[t].input.item_id # frame[u].input.item_id

IsPrefix(p, s) == Len(p) <= Len(s) /\ SubSeq(s, 1, Len(p)) = p

\* C9: for every ApiType the request goes to a URL that begins with the base
\* endpoint followed by the client's domain_id; none has an empty URL.
C9_UrlBeginsWithBaseAndDomain ==
    \A t \in Threads :
        Waiting(t) =>
            /\ request[t].url # <<>>
            /\ IsPrefix(Path2(ApiBase, self.domain_id), request[t].url)

Token(i) == HeaderValue(hdr_out[i], "X-Request-Token")

SameSecret == hdr_args[1].api_secret = hdr_args[2].api_secret

\* C10 as stated: under one api_secret, two tokens are equal only if the
\* operations are equal and the domain ids are equal.
C10_TokenBindsOperationAndDomain ==
    (hdr_out # <<>> /\ SameSecret /\ Token(1) = Token(2)) =>
        /\ hdr_args[1].operation = hdr_args[2].operation
        /\ hdr_args[1].domain_id = hdr_args[2].domain_id

\* C10 amended: under one api_secret, two tokens are equal only if operation
\* followed by domain_id is the same string in both; so for one domain_id the
\* token of an operation is never the token of a different operation.
C10_TokenBindsConcatenation ==
    (hdr_out # <<>> /\ SameSecret /\ Token(1) = Token(2)) =>
        /\ hdr_args[1].operation \o hdr_args[1].domain_id
             = hdr_args[2].operation \o hdr_args[2].domain_id
        /\ hdr_args[1].domain_id = hdr_args[2].domain_id =>
              hdr_args[1].operation = hdr_args[2].operation

C10_Witness ==
    /\ hdr_out # <<>>
    /\ SameSecret
    /\ Token(1) = Token(2)
    /\ hdr_args[1].operation # hdr_args[2].operation

====
